---- MODULE Spec2Model ----
(***************************************************************************)
(* Model of three parts of go-dblib:                                       *)
(*   - tds.PacketHeader, the 8-byte big-endian packet header codec         *)
(*     (src/tds/packetHeader.go), specification SpecHeader;                *)
(*   - dsn.Info, the connection configuration and its tag-addressed        *)
(*     setter (src/unnamed/part_000), specification SpecInfo;              *)
(*   - term.Repl, the interactive read-eval loop (src/term/repl.go),       *)
(*     specification SpecRepl.                                             *)
(* Go strings on which the code does character-level work are sequences   *)
(* of one-character strings; integers keep their Go width (uint8, uint16). *)
(***************************************************************************)
EXTENDS Integers, Sequences, FiniteSets, TLC

VARIABLES
    header,   \* tds: the PacketHeader the methods are called on
    bs,       \* tds: the byte slice of the current call (argument or local buffer)
    hres,     \* tds: the last call, its inputs and what it returned
    enc,      \* tds: the header whose Read filled bs, NoHeader when bs has other content
    info,     \* dsn: the *Info at hand, NilInfo when NewInfoFromEnv returned none
    ires,     \* dsn: the last call, its inputs and what it returned
    sets,     \* dsn: the SetField calls made on info since NewInfo, <<key, value>> each
    pc,                   \* term: where Repl is: "start", "loop", "exec", "returned"
    rl,                   \* term: the readline instance: "nil", "open", "closed"
    PromptDatabaseName,   \* term: the database name shown in the prompt
    promptMultiline,      \* term: whether a command is being continued
    prompt,               \* term: the prompt last handed to rl.SetPrompt
    cmds,                 \* term: the lines buffered for the next command
    exitAfterExecution,   \* term: Readline reported EOF in this pass
    line,                 \* term: the variable line of the loop
    rret,                 \* term: the error Repl returned
    reads,                \* term: the number of Readline calls
    lastRl,               \* term: what the last Readline returned
    pending,              \* term: the lines Readline gave since the last execution
    ran,                  \* term: the executions since the last Readline
    execs,                \* term: the number of ParseAndExecQueries calls
    execErr,              \* term: what the last ParseAndExecQueries returned
    lastAct               \* term: the last step taken

hvars == <<header, bs, hres, enc>>
ivars == <<info, ires, sets>>

rvars ==
    <<pc, rl, PromptDatabaseName, promptMultiline, prompt, cmds, exitAfterExecution, line,
      rret, reads, lastRl, pending, ran, execs, execErr, lastAct>>

vars ==
    <<header, bs, hres, enc, info, ires, sets,
      pc, rl, PromptDatabaseName, promptMultiline, prompt, cmds, exitAfterExecution, line,
      rret, reads, lastRl, pending, ran, execs, execErr, lastAct>>

(***************************************************************************)
(* tds.PacketHeader                                                        *)
(***************************************************************************)

PacketHeaderSize == 8

NoHeader == [none |-> TRUE]

\* The nil *Info.
NilInfo == [nil |-> TRUE]

\* type PacketHeader struct: the zero value of the struct.
ZeroHeader ==
    [MsgType |-> 0, Status |-> 0, Length |-> 0, Channel |-> 0, PacketNr |-> 0, Window |-> 0]

\* Sampled values of each field; the headers of the model are every combination.
MsgTypes == {1, 255}
Statuses == {0, 65}
Lengths == {8, 520, 65535}
Channels == {0, 258}
PacketNrs == {0, 200}
Windows == {0, 7}

Headers ==
    [MsgType : MsgTypes, Status : Statuses, Length : Lengths,
     Channel : Channels, PacketNr : PacketNrs, Window : Windows]

\* byte(x), uint8(x): conversion to 8 bits.
Byte(x) == x % 256

\* uint16(x): conversion to 16 bits.
ToUint16(x) == x % 65536

\* PutUint16 with the low byte first (binary.LittleEndian).
PutUint16LittleEndian(v) == << v % 256, (v \div 256) % 256 >>

\* binary.BigEndian.PutUint16: the two bytes written, high byte first.
PutUint16(v) == << (v \div 256) % 256, v % 256 >>

\* binary.BigEndian.Uint16 of a two-byte slice.
Uint16(b) == b[1] * 256 + b[2]

\* make([]byte, n)
MakeBytes(n) == [i \in 1..n |-> 0]

\* func NewPacketHeader(packetSize int) PacketHeader
NewPacketHeader(packetSize) == [ZeroHeader EXCEPT !.Length = ToUint16(packetSize)]

\* func (header PacketHeader) Read(bs []byte) (int64, error)
\* The result holds the returned count and error and the buffer as left.
Read(h, buf) ==
    IF Len(buf) # PacketHeaderSize
    THEN [n |-> 0, err |-> "ErrBufferLength", bs |-> buf]
    ELSE [n |-> PacketHeaderSize, err |-> "nil",
          bs |-> << Byte(h.MsgType), Byte(h.Status) >>
                 \o PutUint16(h.Length)
                 \o PutUint16(h.Channel)
                 \o << Byte(h.PacketNr), Byte(h.Window) >>]

\* func (header *PacketHeader) Write(bs []byte) (int64, error)
\* The result holds the returned count and error and the header as left.
Write(h, buf) ==
    IF Len(buf) # PacketHeaderSize
    THEN [n |-> 0, err |-> "ErrBufferLength", header |-> h]
    ELSE [n |-> PacketHeaderSize, err |-> "nil",
          header |-> [MsgType |-> Byte(buf[1]),
                      Status |-> Byte(buf[2]),
                      Length |-> ToUint16(Uint16(SubSeq(buf, 3, 4))),
                      Channel |-> ToUint16(Uint16(SubSeq(buf, 5, 6))),
                      PacketNr |-> Byte(buf[7]),
                      Window |-> Byte(buf[8])]]

\* WriteTo that reports the whole header written whatever the writer returned.
WriteToIgnoringWriter(h, w) ==
    LET r == Read(h, MakeBytes(PacketHeaderSize)) IN
    [n |-> r.n, err |-> r.err, bs |-> r.bs, calls |-> << r.bs >>]

\* func (header PacketHeader) WriteTo(w io.Writer) (int64, error)
\* w is what the writer's Write returns, [m, err]; calls lists the slices
\* handed to the writer.
WriteTo(h, w) ==
    LET r == Read(h, MakeBytes(PacketHeaderSize)) IN
    IF r.err # "nil" \/ r.n # PacketHeaderSize
    THEN [n |-> r.n, err |-> "ErrWriteHeader", bs |-> r.bs, calls |-> << >>]
    ELSE [n |-> w.m, err |-> w.err, bs |-> r.bs, calls |-> << r.bs >>]

\* The test of ReadFrom without its errors.Is: any read of 0 bytes counts as EOF.
IsEOFAlways(err) == TRUE

\* errors.Is(err, io.EOF)
IsEOF(err) == err = "EOF"

\* The local buffer of ReadFrom after r.Read(bs) stored n bytes of data in it.
Filled(data, n) == [i \in 1..PacketHeaderSize |-> IF i <= n THEN data[i] ELSE 0]

\* func (header *PacketHeader) ReadFrom(r io.Reader) (int64, error)
\* r is what the reader's Read does: it stores r.n bytes of r.data and returns
\* r.n and r.err.
ReadFrom(h, r) ==
    LET buf == Filled(r.data, r.n) IN
    IF r.err # "nil" \/ r.n # PacketHeaderSize
    THEN IF r.n = 0 /\ IsEOF(r.err)
         THEN [n |-> 0, err |-> "ErrEOFAfterZeroRead", header |-> h, bs |-> buf]
         ELSE [n |-> r.n, err |-> "ErrPartialRead", header |-> h, bs |-> buf]
    ELSE LET m == Write(h, buf) IN
         [n |-> m.n, err |-> m.err, header |-> m.header, bs |-> buf]

\* Inputs of the calls.
PacketSizes == {-1, 0, 7, 8, 512, 65535, 65536, 65540}
BufferLengths == {7, 8, 9}
WriterResults ==
    {[m |-> 8, err |-> "nil"], [m |-> 3, err |-> "ErrShortWrite"], [m |-> 0, err |-> "ErrClosedPipe"]}
ReaderErrors == {"nil", "EOF", "ErrDeadlineExceeded"}
ReaderData == { << 4, 1, 0, 8, 0, 0, 1, 0 >>, << 15, 65, 2, 1, 1, 2, 255, 254 >>, << 7, 0, 0, 3, 255, 255, 9, 9 >> }
ReaderResults == [n : 0..PacketHeaderSize, err : ReaderErrors, data : ReaderData]

\* Before any call: a zero PacketHeader, no buffer, no Info, Repl not started
\* and the package variables of term at their zero values.
Init ==
    /\ header = ZeroHeader
    /\ bs = << >>
    /\ hres = [op |-> "none"]
    /\ enc = NoHeader
    /\ info = NilInfo
    /\ ires = [op |-> "none"]
    /\ sets = << >>
    /\ pc = "start"
    /\ rl = "nil"
    /\ PromptDatabaseName = << >>
    /\ promptMultiline = FALSE
    /\ prompt = << >>
    /\ cmds = << >>
    /\ exitAfterExecution = FALSE
    /\ line = << >>
    /\ rret = << >>
    /\ reads = 0
    /\ lastRl = [line |-> << >>, err |-> << >>]
    /\ pending = << >>
    /\ ran = 0
    /\ execs = 0
    /\ execErr = << >>
    /\ lastAct = "none"

\* header = NewPacketHeader(packetSize)
DoNewPacketHeader ==
    \E p \in PacketSizes :
        /\ header' = NewPacketHeader(p)
        /\ hres' = [op |-> "NewPacketHeader", packetSize |-> p]
        /\ UNCHANGED <<bs, enc, ivars, rvars>>

\* The caller assigns the exported fields of the header.
DoAssign ==
    \E h \in Headers :
        /\ header' = h
        /\ hres' = [op |-> "Assign"]
        /\ UNCHANGED <<bs, enc, ivars, rvars>>

\* n, err := header.Read(bs) on a buffer the caller allocated.
DoRead ==
    \E len \in BufferLengths :
        LET r == Read(header, MakeBytes(len)) IN
        /\ bs' = r.bs
        /\ hres' = [op |-> "Read", n |-> r.n, err |-> r.err, len |-> len]
        /\ enc' = IF r.err = "nil" THEN header ELSE NoHeader
        /\ UNCHANGED <<header, ivars, rvars>>

\* n, err := header.Write(bs) on the buffer at hand.
DoWrite ==
    LET r == Write(header, bs) IN
    /\ header' = r.header
    /\ hres' = [op |-> "Write", n |-> r.n, err |-> r.err, differed |-> header # enc]
    /\ UNCHANGED <<bs, enc, ivars, rvars>>

\* n, err := header.WriteTo(w)
DoWriteTo ==
    \E w \in WriterResults :
        LET r == WriteTo(header, w) IN
        /\ bs' = r.bs
        /\ hres' = [op |-> "WriteTo", n |-> r.n, err |-> r.err, w |-> w, calls |-> r.calls]
        /\ enc' = IF Len(r.calls) > 0 THEN header ELSE NoHeader
        /\ UNCHANGED <<header, ivars, rvars>>

\* n, err := header.ReadFrom(r)
DoReadFrom ==
    \E r \in ReaderResults :
        LET x == ReadFrom(header, r) IN
        /\ header' = x.header
        /\ bs' = x.bs
        /\ hres' = [op |-> "ReadFrom", n |-> x.n, err |-> x.err, r |-> r,
                    kept |-> x.header = header]
        /\ enc' = NoHeader
        /\ UNCHANGED <<ivars, rvars>>

NextHeader ==
    \/ DoNewPacketHeader
    \/ DoAssign
    \/ DoRead
    \/ DoWrite
    \/ DoWriteTo
    \/ DoReadFrom

SpecHeader == Init /\ [][NextHeader]_vars

(***************************************************************************)
(* Claims about tds.PacketHeader, checked under SpecHeader                 *)
(***************************************************************************)

\* The layout of section 4.1, written out byte by byte.
WireBytes(h) ==
    << h.MsgType, h.Status, h.Length \div 256, h.Length % 256,
       h.Channel \div 256, h.Channel % 256, h.PacketNr, h.Window >>

\* The header section 4.1 reads out of eight bytes.
WireHeader(b) ==
    [MsgType |-> b[1], Status |-> b[2], Length |-> b[3] * 256 + b[4],
     Channel |-> b[5] * 256 + b[6], PacketNr |-> b[7], Window |-> b[8]]

\* C1: header round trip. Read into an 8-byte buffer succeeds, and Write of a
\* buffer that Read filled from a header h succeeds and leaves the receiving
\* header equal to h in all six fields, whatever it held before.
C1_RoundTrip ==
    /\ (hres.op = "Read" /\ hres.len = PacketHeaderSize)
          => (hres.err = "nil" /\ hres.n = PacketHeaderSize)
    /\ (hres.op = "Write" /\ enc # NoHeader)
          => (hres.err = "nil" /\ hres.n = PacketHeaderSize /\ header = enc)

\* A Write has decoded a buffer that Read filled from a header with two-byte
\* fields whose bytes differ, into a header that held something else.
C1_Witness ==
    /\ hres.op = "Write"
    /\ enc # NoHeader
    /\ hres.differed
    /\ enc.Length = 520
    /\ enc.Channel = 258
    /\ enc.PacketNr = 200

\* C2: wire layout. Read on an 8-byte buffer returns (8, nil) and fills it with
\* MsgType, Status, Length high/low, Channel high/low, PacketNr, Window; WriteTo
\* hands exactly these 8 bytes to the writer in one Write call and returns the
\* writer's count and error.
C2_WireLayout ==
    /\ (hres.op = "Read" /\ hres.len = PacketHeaderSize)
          => /\ hres.n = 8
             /\ hres.err = "nil"
             /\ bs = WireBytes(header)
    /\ hres.op = "WriteTo"
          => /\ hres.calls = << WireBytes(header) >>
             /\ Len(hres.calls[1]) = 8
             /\ hres.n = hres.w.m
             /\ hres.err = hres.w.err

\* WriteTo has written a header with two-byte fields whose bytes differ, and
\* the writer reported a short write.
C2_Witness ==
    /\ hres.op = "WriteTo"
    /\ header.Length = 520
    /\ header.Channel = 258
    /\ header.Window = 7
    /\ hres.w.err = "ErrShortWrite"
    /\ hres.n = 3

\* C3 as claimed: every read of 0 bytes gives (0, ErrEOFAfterZeroRead), every
\* read of 1 to 7 bytes gives the partial-read error, every failure leaves the
\* header as it was, and every read that delivers 8 bytes succeeds and leaves
\* the header equal to the decoding of the bytes.
C3_AsClaimed ==
    hres.op = "ReadFrom" =>
        /\ hres.r.n = 0 => (hres.n = 0 /\ hres.err = "ErrEOFAfterZeroRead")
        /\ hres.r.n \in 1..7 => hres.err = "ErrPartialRead"
        /\ hres.err # "nil" => hres.kept
        /\ hres.r.n = PacketHeaderSize => (hres.err = "nil" /\ header = WireHeader(hres.r.data))

\* C3 as amended: a read of 0 bytes with io.EOF gives (0, ErrEOFAfterZeroRead);
\* a read of 0 bytes with no error or another error, a read of 1 to 7 bytes,
\* and a read of 8 bytes that also returns an error give the partial-read
\* error with the reader's count; every failure leaves the header as it was;
\* a read of 8 bytes without error succeeds with count 8 and leaves the header
\* equal to the decoding of the bytes.
C3_ReadFrom ==
    hres.op = "ReadFrom" =>
        /\ (hres.r.n = 0 /\ hres.r.err = "EOF")
              => (hres.n = 0 /\ hres.err = "ErrEOFAfterZeroRead")
        /\ (\/ hres.r.n = 0 /\ hres.r.err # "EOF"
            \/ hres.r.n \in 1..7
            \/ hres.r.n = PacketHeaderSize /\ hres.r.err # "nil")
              => (hres.n = hres.r.n /\ hres.err = "ErrPartialRead")
        /\ hres.err # "nil" => hres.kept
        /\ (hres.r.n = PacketHeaderSize /\ hres.r.err = "nil")
              => /\ hres.n = PacketHeaderSize
                 /\ hres.err = "nil"
                 /\ header = WireHeader(hres.r.data)

\* A read of 0 bytes that timed out was reported as a partial read, on a
\* header that held non-zero fields.
C3_Witness ==
    /\ hres.op = "ReadFrom"
    /\ hres.r.n = 0
    /\ hres.r.err = "ErrDeadlineExceeded"
    /\ hres.err = "ErrPartialRead"
    /\ header.Length = 520

\* C4: length invariant. A header built by NewPacketHeader(packetSize) has
\* Length = packetSize, and every header built by NewPacketHeader or decoded by
\* Write or ReadFrom has Length of at least the 8-byte header size.
C4_LengthInvariant ==
    /\ hres.op = "NewPacketHeader"
          => (header.Length = hres.packetSize /\ header.Length >= PacketHeaderSize)
    /\ (hres.op \in {"Write", "ReadFrom"} /\ hres.err = "nil")
          => header.Length >= PacketHeaderSize


(***************************************************************************)
(* dsn.Info                                                                *)
(***************************************************************************)

\* The empty Go string.
EmptyString == << >>

\* strings.Index(s, sep) for a one-character sep: the first position of sep
\* in s (from 1), 0 when s does not contain it.
IndexOf(s, sep) ==
    IF \E i \in 1..Len(s) : s[i] = sep
    THEN CHOOSE i \in 1..Len(s) : s[i] = sep /\ \A j \in 1..(i - 1) : s[j] # sep
    ELSE 0

RECURSIVE Split(_, _)
\* strings.Split(s, sep) for a one-character sep; Split of the empty string is
\* one empty string.
Split(s, sep) ==
    LET i == IndexOf(s, sep) IN
    IF i = 0
    THEN << s >>
    ELSE << SubSeq(s, 1, i - 1) >> \o Split(SubSeq(s, i + 1, Len(s)), sep)

\* strings.SplitN(s, sep, 2) for a one-character sep.
SplitN2(s, sep) ==
    LET i == IndexOf(s, sep) IN
    IF i = 0
    THEN << s >>
    ELSE << SubSeq(s, 1, i - 1), SubSeq(s, i + 1, Len(s)) >>

\* strings.HasPrefix
HasPrefix(s, prefix) ==
    Len(s) >= Len(prefix) /\ SubSeq(s, 1, Len(prefix)) = prefix

\* strings.TrimPrefix
TrimPrefix(s, prefix) ==
    IF HasPrefix(s, prefix) THEN SubSeq(s, Len(prefix) + 1, Len(s)) ELSE s

UpperCase ==
    << "A", "B", "C", "D", "E", "F", "G", "H", "I", "J", "K", "L", "M",
       "N", "O", "P", "Q", "R", "S", "T", "U", "V", "W", "X", "Y", "Z" >>
LowerCase ==
    << "a", "b", "c", "d", "e", "f", "g", "h", "i", "j", "k", "l", "m",
       "n", "o", "p", "q", "r", "s", "t", "u", "v", "w", "x", "y", "z" >>

\* strings.ToLower
ToLower(s) ==
    [i \in 1..Len(s) |->
        IF \E k \in 1..Len(UpperCase) : UpperCase[k] = s[i]
        THEN LowerCase[CHOOSE k \in 1..Len(UpperCase) : UpperCase[k] = s[i]]
        ELSE s[i]]

\* strings.ReplaceAll(s, old, new) for one-character old and new.
ReplaceAll(s, old, new) == [i \in 1..Len(s) |-> IF s[i] = old THEN new ELSE s[i]]

\* type Info struct: the fields in declaration order, each with its kind and
\* its json and multiref struct tags (Tag.Get gives "" for a tag not set).
InfoFields ==
    <<
       [name |-> "Host", kind |-> "string",
        json |-> << "h", "o", "s", "t" >>,
        multiref |-> << "h", "o", "s", "t", "n", "a", "m", "e" >>],
       [name |-> "Port", kind |-> "string",
        json |-> << "p", "o", "r", "t" >>,
        multiref |-> << >>],
       [name |-> "Username", kind |-> "string",
        json |-> << "u", "s", "e", "r", "n", "a", "m", "e" >>,
        multiref |-> << "u", "s", "e", "r" >>],
       [name |-> "Password", kind |-> "string",
        json |-> << "p", "a", "s", "s", "w", "o", "r", "d" >>,
        multiref |-> << "p", "a", "s", "s", "w", "d", ",", "p", "a", "s", "s" >>],
       [name |-> "Userstorekey", kind |-> "string",
        json |-> << "u", "s", "e", "r", "s", "t", "o", "r", "e", "k", "e", "y" >>,
        multiref |-> << "k", "e", "y" >>],
       [name |-> "Database", kind |-> "string",
        json |-> << "d", "a", "t", "a", "b", "a", "s", "e" >>,
        multiref |-> << "d", "b" >>],
       [name |-> "ClientHostname", kind |-> "string",
        json |-> << "c", "l", "i", "e", "n", "t", "-", "h", "o", "s", "t", "n", "a", "m", "e" >>,
        multiref |-> << >>],
       [name |-> "PacketReadTimeout", kind |-> "int",
        json |-> << "p", "a", "c", "k", "e", "t", "-", "r", "e", "a", "d", "-", "t", "i", "m", "e", "o", "u", "t" >>,
        multiref |-> << >>],
       [name |-> "TLSEnable", kind |-> "bool",
        json |-> << "t", "l", "s" >>,
        multiref |-> << >>],
       [name |-> "TLSHostname", kind |-> "string",
        json |-> << "t", "l", "s", "-", "h", "o", "s", "t", "n", "a", "m", "e" >>,
        multiref |-> << "s", "s", "l" >>],
       [name |-> "TLSSkipValidation", kind |-> "bool",
        json |-> << "t", "l", "s", "-", "s", "k", "i", "p", "-", "v", "a", "l", "i", "d", "a", "t", "i", "o", "n" >>,
        multiref |-> << >>],
       [name |-> "TLSCAFile", kind |-> "string",
        json |-> << "t", "l", "s", "-", "c", "a" >>,
        multiref |-> << >>],
       [name |-> "ConnectProps", kind |-> "map",
        json |-> << "c", "o", "n", "n", "e", "c", "t", "p", "r", "o", "p", "s" >>,
        multiref |-> << >>]
    >>

\* strconv.ParseBool: the strings it accepts.
BoolTrue ==
    { << "1" >>, << "t" >>, << "T" >>, << "T", "R", "U", "E" >>,
      << "t", "r", "u", "e" >>, << "T", "r", "u", "e" >> }
BoolFalse ==
    { << "0" >>, << "f" >>, << "F" >>, << "F", "A", "L", "S", "E" >>,
      << "f", "a", "l", "s", "e" >>, << "F", "a", "l", "s", "e" >> }

\* strconv.ParseBool
ParseBool(value) ==
    IF value \in BoolTrue THEN [b |-> TRUE, err |-> "nil"]
    ELSE IF value \in BoolFalse THEN [b |-> FALSE, err |-> "nil"]
    ELSE [b |-> FALSE, err |-> "ErrSyntax"]

\* The timeout NewInfo sets.
DefaultPacketReadTimeout == 50

\* url.Values{}: the map with no key.
EmptyValues == << >>

\* func NewInfo() *Info
NewInfo ==
    [Host |-> EmptyString, Port |-> EmptyString, Username |-> EmptyString,
     Password |-> EmptyString, Userstorekey |-> EmptyString, Database |-> EmptyString,
     ClientHostname |-> EmptyString, PacketReadTimeout |-> DefaultPacketReadTimeout,
     TLSEnable |-> FALSE, TLSHostname |-> EmptyString, TLSSkipValidation |-> FALSE,
     TLSCAFile |-> EmptyString, ConnectProps |-> EmptyValues]

\* The names tagToField maps to field i: the first part of the json tag and,
\* with multiref, the parts of the multiref tag.
FieldNames(i, multiref) ==
    LET names == << Split(InfoFields[i].json, ",")[1] >> IN
    IF multiref THEN names \o Split(InfoFields[i].multiref, ",") ELSE names

\* for _, name := range names { tTF[name] = v.Field(i) }
RECURSIVE PutNames(_, _, _)
PutNames(tTF, names, i) ==
    IF names = << >>
    THEN tTF
    ELSE PutNames((Head(names) :> i) @@ tTF, Tail(names), i)

\* The loop of tagToField from field i on.
RECURSIVE TagToFieldFrom(_, _, _)
TagToFieldFrom(tTF, i, multiref) ==
    IF i > Len(InfoFields)
    THEN tTF
    ELSE IF InfoFields[i].name = "ConnectProps"
         THEN TagToFieldFrom(tTF, i + 1, multiref)
         ELSE TagToFieldFrom(PutNames(tTF, FieldNames(i, multiref), i), i + 1, multiref)

\* func (info *Info) tagToField(multiref bool) map[string]reflect.Value
\* The map gives the index of the field in InfoFields.
tagToField(multiref) == TagToFieldFrom(<< >>, 1, multiref)

\* info.tagToField(true), the map SetField looks the key up in.
TagToFieldMultiref == tagToField(TRUE)

\* url.Values.Add: v[key] = append(v[key], value)
ValuesAdd(v, key, value) ==
    (key :> Append(IF key \in DOMAIN v THEN v[key] ELSE << >>, value)) @@ v

\* field.SetString(value), field.SetBool(b) on field f of info.
SetStruct(inf, f, x) == [inf EXCEPT ![f] = x]

\* func (info *Info) SetField(key, value string) error
\* The result holds the Info as left and the error.
SetField(inf, key, value) ==
    LET ttf == TagToFieldMultiref IN
    IF key \notin DOMAIN ttf
    THEN [info |-> [inf EXCEPT !.ConnectProps = ValuesAdd(inf.ConnectProps, key, value)],
          err |-> "nil"]
    ELSE LET field == InfoFields[ttf[key]] IN
         CASE field.kind = "string" ->
                [info |-> SetStruct(inf, field.name, value), err |-> "nil"]
           [] field.kind = "bool" ->
                LET p == ParseBool(value) IN
                IF p.err # "nil"
                THEN [info |-> inf, err |-> "ErrParseBool"]
                ELSE [info |-> SetStruct(inf, field.name, p.b), err |-> "nil"]
           [] OTHER ->
                [info |-> inf, err |-> "ErrUnhandledKind"]

\* func (info Info) Prop(property string) string
\* (a nil ConnectProps has no key either)
Prop(inf, property) ==
    IF property \notin DOMAIN inf.ConnectProps
    THEN EmptyString
    ELSE LET vals == inf.ConnectProps[property] IN
         IF Len(vals) = 0 THEN EmptyString ELSE vals[Len(vals)]

\* func (info Info) PropDefault(property, defaultValue string) string
PropDefault(inf, property, defaultValue) ==
    LET val == Prop(inf, property) IN
    IF val # EmptyString THEN val ELSE defaultValue

\* if prefix == "" { prefix = "ASE" }; prefix += "_"
EnvPrefix(prefix) ==
    (IF prefix = EmptyString THEN << "A", "S", "E" >> ELSE prefix) \o << "_" >>

\* The key NewInfoFromEnv passes to SetField for a variable named key.
EnvKey(key, prefix) ==
    ReplaceAll(ToLower(TrimPrefix(key, prefix)), "_", "-")

\* The loop of NewInfoFromEnv over os.Environ(): the Info and the error it
\* ends with, and the SetField calls it made.
RECURSIVE EnvLoop(_, _, _, _)
EnvLoop(inf, environ, prefix, calls) ==
    IF environ = << >>
    THEN [info |-> inf, err |-> "nil", calls |-> calls]
    ELSE LET envSplit == SplitN2(Head(environ), "=")
             key == envSplit[1]
             value == envSplit[2]
         IN  IF ~HasPrefix(key, prefix)
             THEN EnvLoop(inf, Tail(environ), prefix, calls)
             ELSE LET r == SetField(inf, EnvKey(key, prefix), value) IN
                  IF r.err # "nil"
                  THEN [info |-> NilInfo, err |-> "ErrSetField",
                        calls |-> Append(calls, << EnvKey(key, prefix), value >>)]
                  ELSE EnvLoop(r.info, Tail(environ), prefix,
                               Append(calls, << EnvKey(key, prefix), value >>))

\* func NewInfoFromEnv(prefix string) (*Info, error)
NewInfoFromEnv(prefix, environ) == EnvLoop(NewInfo, environ, EnvPrefix(prefix), << >>)


\* Inputs of the calls.
MaxSetCalls == 2
MaxEnviron == 2

SampleValues == { << "x" >>, << "1" >>, << "t", "r", "u", "e" >> }
SampleKeys ==
    { << "h", "o", "s", "t" >>,
      << "h", "o", "s", "t", "n", "a", "m", "e" >>,
      << "p", "a", "s", "s" >>,
      << "p", "o", "r", "t" >>,
      << "p", "a", "c", "k", "e", "t", "-", "r", "e", "a", "d", "-",
         "t", "i", "m", "e", "o", "u", "t" >>,
      << "t", "l", "s" >>,
      << "t", "l", "s", "-", "c", "a" >>,
      << "s", "s", "l" >>,
      << "u", "s", "e", "r" >>,
      << "d", "b" >>,
      << "k", "e", "y" >>,
      << "t", "l", "s", "-", "s", "k", "i", "p", "-",
         "v", "a", "l", "i", "d", "a", "t", "i", "o", "n" >>,
      << "c", "o", "n", "n", "e", "c", "t", "p", "r", "o", "p", "s" >>,
      << "c", "g", "o", "-", "c", "b" >>,
      << "f", "o", "o" >>,
      EmptyString }
SampleDefaults == { << "d" >> }
SamplePrefixes == { EmptyString, << "D", "B" >> }
SampleEnv ==
    { << "A", "S", "E", "_", "H", "O", "S", "T", "N", "A", "M", "E", "=", "x" >>,
      << "A", "S", "E", "_", "T", "L", "S", "=", "1" >>,
      << "A", "S", "E", "_", "P", "A", "C", "K", "E", "T", "_", "R", "E", "A", "D", "_",
         "T", "I", "M", "E", "O", "U", "T", "=", "5", "0" >>,
      << "A", "S", "E", "_", "C", "G", "O", "_", "C", "B", "=", "y", "=", "z" >>,
      << "A", "S", "E", "_", "=", "x" >>,
      << "D", "B", "_", "P", "O", "R", "T", "=", "5", "0" >> }
Environs == UNION { [1..n -> SampleEnv] : n \in 0..MaxEnviron }

\* info = NewInfo()
DoNewInfo ==
    /\ ires.op = "none"
    /\ info' = NewInfo
    /\ ires' = [op |-> "NewInfo"]
    /\ sets' = << >>
    /\ UNCHANGED <<hvars, rvars>>

\* info, err = NewInfoFromEnv(prefix) in an environment environ
DoNewInfoFromEnv ==
    /\ ires.op = "none"
    /\ \E prefix \in SamplePrefixes, environ \in Environs :
        LET r == NewInfoFromEnv(prefix, environ) IN
        /\ info' = r.info
        /\ ires' = [op |-> "NewInfoFromEnv", prefix |-> prefix, environ |-> environ,
                    err |-> r.err]
        /\ sets' = r.calls
        /\ UNCHANGED <<hvars, rvars>>

\* err = info.SetField(key, value)
DoSetField ==
    /\ info # NilInfo
    /\ Len(sets) < MaxSetCalls
    /\ \E key \in SampleKeys, value \in SampleValues :
        LET r == SetField(info, key, value) IN
        /\ info' = r.info
        /\ ires' = [op |-> "SetField", key |-> key, value |-> value, err |-> r.err,
                    before |-> info]
        /\ sets' = Append(sets, << key, value >>)
        /\ UNCHANGED <<hvars, rvars>>

\* info.Prop(key) and info.PropDefault(key, def)
DoProp ==
    /\ info # NilInfo
    /\ \E key \in SampleKeys, def \in SampleDefaults :
        /\ ires' = [op |-> "Prop", key |-> key, def |-> def,
                    prop |-> Prop(info, key), val |-> PropDefault(info, key, def)]
        /\ UNCHANGED <<info, sets, hvars, rvars>>

NextInfo ==
    \/ DoNewInfo
    \/ DoNewInfoFromEnv
    \/ DoSetField
    \/ DoProp

SpecInfo == Init /\ [][NextInfo]_vars

(***************************************************************************)
(* Claims about dsn.Info, checked under SpecInfo                           *)
(***************************************************************************)

\* The fields of Info other than ConnectProps, by index in InfoFields.
NamedFields == { i \in 1..Len(InfoFields) : InfoFields[i].name # "ConnectProps" }

\* The json tag of field i and the aliases its multiref tag lists; a field
\* without a multiref tag lists none.
DeclaredNames(i) ==
    { Split(InfoFields[i].json, ",")[1] }
    \cup ( IF InfoFields[i].multiref = EmptyString
           THEN { }
           ELSE { Split(InfoFields[i].multiref, ",")[k]
                    : k \in 1..Len(Split(InfoFields[i].multiref, ",")) } )

DecimalDigits == << "0", "1", "2", "3", "4", "5", "6", "7", "8", "9" >>

IsDecimal(s) ==
    /\ s # EmptyString
    /\ \A j \in 1..Len(s) : \E d \in 1..Len(DecimalDigits) : DecimalDigits[d] = s[j]

RECURSIVE DecimalValue(_)
DecimalValue(s) ==
    IF s = EmptyString
    THEN 0
    ELSE 10 * DecimalValue(SubSeq(s, 1, Len(s) - 1))
         + (CHOOSE d \in 1..Len(DecimalDigits) : DecimalDigits[d] = s[Len(s)]) - 1

\* A value a field of the kind can hold, and the value it then holds.
WellFormed(kind, value) ==
    CASE kind = "string" -> TRUE
      [] kind = "bool" -> value \in BoolTrue \cup BoolFalse
      [] kind = "int" -> IsDecimal(value)
      [] OTHER -> FALSE
StoredValue(kind, value) ==
    CASE kind = "string" -> value
      [] kind = "bool" -> value \in BoolTrue
      [] kind = "int" -> DecimalValue(value)

\* An environment variable NewInfoFromEnv does not look at, or one named
\* <prefix>_<TAG> for a declared name of a named field, with a well-formed value.
EnvWellFormed(env, prefix) ==
    LET kv == SplitN2(env, "=") IN
    HasPrefix(kv[1], EnvPrefix(prefix)) =>
        \E i \in NamedFields :
            /\ EnvKey(kv[1], EnvPrefix(prefix)) \in DeclaredNames(i)
            /\ WellFormed(InfoFields[i].kind, kv[2])

\* C5: every configuration field is settable by its tag. SetField(tag, value)
\* with the json tag or a listed alias of a field other than ConnectProps and
\* a well-formed value returns no error and stores the value in that field,
\* and NewInfoFromEnv returns no error on an environment of such variables.
C5_EveryFieldSettable ==
    /\ ires.op = "SetField" =>
          \A i \in NamedFields :
              (ires.key \in DeclaredNames(i) /\ WellFormed(InfoFields[i].kind, ires.value))
                 => /\ ires.err = "nil"
                    /\ info[InfoFields[i].name] = StoredValue(InfoFields[i].kind, ires.value)
    /\ ires.op = "NewInfoFromEnv" =>
          ((\A j \in 1..Len(ires.environ) : EnvWellFormed(ires.environ[j], ires.prefix))
             => ires.err = "nil")

\* The value of the last SetField(k, v) among calls, the empty string if none.
LastSet(calls, k) ==
    LET at == { j \in 1..Len(calls) : calls[j][1] = k } IN
    IF at = { }
    THEN EmptyString
    ELSE calls[CHOOSE j \in at : \A l \in at : l <= j][2]

\* The values of the SetField(k, v) calls among calls, in call order.
RECURSIVE ValuesSet(_, _)
ValuesSet(calls, k) ==
    IF calls = << >>
    THEN << >>
    ELSE IF Head(calls)[1] = k
         THEN << Head(calls)[2] >> \o ValuesSet(Tail(calls), k)
         ELSE ValuesSet(Tail(calls), k)

\* v[k], empty for a key v does not hold.
ValuesAt(v, k) == IF k \in DOMAIN v THEN v[k] ELSE << >>

\* C6: Prop returns the last value set. For every key that is not a declared
\* name of a named field, Prop(k) is the value of the last SetField(k, v) call
\* since NewInfo and the empty string when there was none, PropDefault(k, d) is
\* Prop(k) when that is not empty and d otherwise, and ConnectProps[k] holds
\* the values of all SetField(k, v) calls in call order.
C6_PropLastValueSet ==
    (ires.op = "Prop" /\ \A i \in NamedFields : ires.key \notin DeclaredNames(i)) =>
        /\ ires.prop = LastSet(sets, ires.key)
        /\ ires.val = (IF ires.prop # EmptyString THEN ires.prop ELSE ires.def)
        /\ ValuesAt(info.ConnectProps, ires.key) = ValuesSet(sets, ires.key)

\* C9: unknown keys only reach the overflow bag. SetField with a key that is
\* no declared name of any field (the empty string included) returns no error,
\* appends the value to ConnectProps[key] and leaves every named field as it
\* was; SetField with a declared name of a named field leaves ConnectProps as
\* it was.
C9_UnknownKeysOnlyOverflow ==
    ires.op = "SetField" =>
        LET old == ires.before.ConnectProps IN
        /\ (\A i \in 1..Len(InfoFields) : ires.key \notin DeclaredNames(i)) =>
              /\ ires.err = "nil"
              /\ ValuesAt(info.ConnectProps, ires.key) = Append(ValuesAt(old, ires.key), ires.value)
              /\ \A i \in NamedFields : info[InfoFields[i].name] = ires.before[InfoFields[i].name]
        /\ (\E i \in NamedFields : ires.key \in DeclaredNames(i)) =>
              info.ConnectProps = old

(***************************************************************************)
(* term.Repl                                                               *)
(***************************************************************************)

\* The nil error; an error is the sequence of its message and what it wraps.
NilError == << >>

\* unicode.IsSpace for the characters of the model's lines.
WhiteSpace == { " ", "\t", "\n", "\r" }

RECURSIVE TrimLeft(_)
TrimLeft(s) ==
    IF s # << >> /\ Head(s) \in WhiteSpace THEN TrimLeft(Tail(s)) ELSE s

RECURSIVE TrimRight(_)
TrimRight(s) ==
    IF s # << >> /\ s[Len(s)] \in WhiteSpace
    THEN TrimRight(SubSeq(s, 1, Len(s) - 1))
    ELSE s

\* strings.TrimSpace
TrimSpace(s) == TrimRight(TrimLeft(s))

\* strings.HasSuffix
HasSuffix(s, suffix) ==
    Len(s) >= Len(suffix) /\ SubSeq(s, Len(s) - Len(suffix) + 1, Len(s)) = suffix

RECURSIVE Join(_, _)
\* strings.Join
Join(elems, sep) ==
    IF elems = << >> THEN << >>
    ELSE IF Len(elems) = 1 THEN elems[1]
    ELSE elems[1] \o sep \o Join(Tail(elems), sep)

\* func UpdatePrompt(): the prompt it hands to rl.SetPrompt.
UpdatePrompt(multiline, databaseName) ==
    LET p == IF multiline THEN << ">", ">", ">", " " >> ELSE << ">", " " >> IN
    IF databaseName # << >> THEN databaseName \o p ELSE p

\* The append without its test: empty lines are buffered too.
AppendLineAlways(c, l) == Append(c, l)

\* if line != "" { cmds = append(cmds, line) }
AppendLine(c, l) == IF l # << >> THEN Append(c, l) ELSE c

\* The command is finished: the negation of
\* !strings.HasSuffix(line, ";") && !exitAfterExecution
CommandFinished(l, exit) == HasSuffix(l, << ";" >>) \/ exit

\* The return taken on any error of the execution as well.
ReturnsOnError(exit, err) == exit \/ err # NilError

\* if exitAfterExecution { return err }
ReturnsAfterExec(exit, err) == exit

\* Inputs of the execs.
MaxReads == 4

SampleLines ==
    { << >>,
      << " ", "\t" >>,
      << "a" >>,
      << " ", "b", " ", "c", " " >>,
      << "d", ";" >>,
      << "\t", "e", ";", " " >>,
      << ";" >> }
ReadlineErrors == { NilError, << "EOF" >>, << "Interrupt" >> }
ReadlineResults == [line : SampleLines, err : ReadlineErrors]
ExecErrors == { NilError, << "ErrExec" >> }
DatabaseNames == { << >>, << "d", "b" >> }

\* rl, err = readline.New("") up to the loop.
ReplNew ==
    /\ pc = "start"
    /\ \E ok \in BOOLEAN :
          IF ok
          THEN /\ rl' = "open"
               /\ cmds' = << >>
               /\ pc' = "loop"
               /\ UNCHANGED rret
          ELSE /\ rret' = << "term: failed to initialize readline", << "ErrNew" >> >>
               /\ pc' = "returned"
               /\ UNCHANGED <<rl, cmds>>
    /\ lastAct' = "New"
    /\ UNCHANGED <<promptMultiline, PromptDatabaseName, prompt, exitAfterExecution, line,
                   reads, lastRl, pending, ran, execs, execErr, hvars, ivars>>

\* One pass of the loop from UpdatePrompt() to the call of ParseAndExecQueries,
\* to the continue, or to the return on a readline error.
ReplReadline ==
    /\ pc = "loop"
    /\ reads < MaxReads
    /\ \E res \in ReadlineResults :
          /\ prompt' = IF rl # "nil"
                       THEN UpdatePrompt(promptMultiline, PromptDatabaseName)
                       ELSE prompt
          /\ lastRl' = res
          /\ IF res.err # NilError /\ res.err # << "EOF" >>
             THEN /\ rret' = << "term: received error from readline", res.err >>
                  /\ pc' = "returned"
                  /\ rl' = "closed"
                  /\ exitAfterExecution' = FALSE
                  /\ UNCHANGED <<cmds, promptMultiline, line, pending>>
             ELSE LET exit == (res.err = << "EOF" >>)
                      l == TrimSpace(res.line)
                      c == AppendLine(cmds, l)
                  IN  /\ exitAfterExecution' = exit
                      /\ pending' = Append(pending, res.line)
                      /\ IF ~CommandFinished(l, exit)
                         THEN /\ promptMultiline' = TRUE
                              /\ cmds' = c
                              /\ line' = l
                              /\ pc' = "loop"
                         ELSE /\ promptMultiline' = FALSE
                              /\ line' = Join(c, << " " >>)
                              /\ cmds' = << >>
                              /\ pc' = "exec"
                      /\ UNCHANGED <<rret, rl>>
    /\ reads' = reads + 1
    /\ ran' = 0
    /\ lastAct' = "Readline"
    /\ UNCHANGED <<PromptDatabaseName, execs, execErr, hvars, ivars>>

\* err = ParseAndExecQueries(db, line) and the rest of the pass.
ReplExec ==
    /\ pc = "exec"
    /\ \E e \in ExecErrors, name \in DatabaseNames :
          /\ execErr' = e
          /\ PromptDatabaseName' = name
          /\ IF ReturnsAfterExec(exitAfterExecution, e)
             THEN /\ rret' = e
                  /\ pc' = "returned"
                  /\ rl' = "closed"
             ELSE /\ pc' = "loop"
                  /\ UNCHANGED <<rret, rl>>
    /\ execs' = execs + 1
    /\ ran' = ran + 1
    /\ pending' = << >>
    /\ lastAct' = "Exec"
    /\ UNCHANGED <<cmds, promptMultiline, prompt, exitAfterExecution, line, reads, lastRl,
                   hvars, ivars>>

NextRepl ==
    \/ ReplNew
    \/ ReplReadline
    \/ ReplExec

SpecRepl == Init /\ [][NextRepl]_vars

(***************************************************************************)
(* Claims about term.Repl, checked under SpecRepl                          *)
(***************************************************************************)

\* s without the white space before its first and after its last other
\* character.
Stripped(s) ==
    LET at == { i \in 1..Len(s) : s[i] \notin WhiteSpace } IN
    IF at = { }
    THEN << >>
    ELSE SubSeq(s, CHOOSE i \in at : \A j \in at : i <= j,
                   CHOOSE i \in at : \A j \in at : j <= i)

\* The stripped lines of raw that are not empty, in order.
Words(raw) ==
    SelectSeq([i \in 1..Len(raw) |-> Stripped(raw[i])], LAMBDA w : w # << >>)

RECURSIVE SpaceJoined(_)
\* The words with one space between neighbours.
SpaceJoined(words) ==
    IF words = << >> THEN << >>
    ELSE IF Len(words) = 1 THEN words[1]
    ELSE SpaceJoined(SubSeq(words, 1, Len(words) - 1)) \o << " " >> \o words[Len(words)]

\* C7: command assembly. ParseAndExecQueries is called only right after a
\* Readline that gave a line whose trimmed text ends with ";" or that reported
\* EOF; the text passed is the trimmed, non-empty lines read since the previous
\* call, in order, joined by single spaces; the buffer is empty at and after
\* every call, and while lines are buffered the buffer holds exactly the
\* trimmed, non-empty lines read since the previous call.
C7_CommandAssembly ==
    /\ pc = "exec" =>
          /\ lastAct = "Readline"
          /\ (HasSuffix(Stripped(lastRl.line), << ";" >>) \/ lastRl.err = << "EOF" >>)
          /\ line = SpaceJoined(Words(pending))
          /\ cmds = << >>
    /\ lastAct = "Exec" => (cmds = << >> /\ pending = << >>)
    /\ pc = "loop" => cmds = Words(pending)

\* ParseAndExecQueries is about to be called a second time, with a command of
\* three lines of which one was blank and one was padded with white space.
C7_Witness ==
    /\ pc = "exec"
    /\ execs = 1
    /\ Len(pending) = 3
    /\ Len(Words(pending)) = 2
    /\ \E i \in 1..Len(pending) : pending[i] # Stripped(pending[i]) /\ Stripped(pending[i]) # << >>
    /\ lastRl.err = NilError

\* C8: termination and error propagation. Repl returns only when readline
\* initialisation fails, when Readline returns a non-EOF error (it returns
\* that error, wrapped, without executing what is buffered), or when Readline
\* returns EOF (the buffered lines and the final line are executed once and
\* Repl returns that execution's error). After an execution that was not
\* ended by EOF the loop goes on with an empty buffer and the single-line
\* prompt, whatever the execution returned.
C8_Termination ==
    /\ pc = "returned" =>
          \/ /\ lastAct = "New"
             /\ rret # NilError
             /\ execs = 0
          \/ /\ lastAct = "Readline"
             /\ lastRl.err \notin { NilError, << "EOF" >> }
             /\ rret = << "term: received error from readline", lastRl.err >>
             /\ ran = 0
          \/ /\ lastAct = "Exec"
             /\ lastRl.err = << "EOF" >>
             /\ ran = 1
             /\ rret = execErr
    /\ (lastAct = "Exec" /\ lastRl.err # << "EOF" >>) =>
          /\ pc = "loop"
          /\ cmds = << >>
          /\ promptMultiline = FALSE
    /\ (lastAct = "Readline" /\ lastRl.err = << "EOF" >>) => pc = "exec"

\* Repl has returned the error of the execution that EOF started, after an
\* earlier execution had failed without ending the loop.
C8_Witness ==
    /\ pc = "returned"
    /\ lastAct = "Exec"
    /\ lastRl.err = << "EOF" >>
    /\ rret = << "ErrExec" >>
    /\ execs = 2

====
